---- MODULE Spec2Model ----
(***************************************************************************)
(* Wallet service (zSMOGz/wallet): the write pipeline of                   *)
(* internal/handler/wallet.go over a Postgres ledger (wallets,             *)
(* transactions, row locks taken by SELECT ... FOR UPDATE) and a Redis     *)
(* list used as the operation queue.                                       *)
(*                                                                         *)
(* Amounts and balances are float64 in the code; here they are integers    *)
(* (whole currency units).  Every storage call of the executor is one      *)
(* step; computation between two storage calls belongs to the step of the  *)
(* call that precedes it.                                                  *)
(***************************************************************************)
EXTENDS Integers, Sequences, FiniteSets, TLC

(***************************************************************************)
(* Bounds of the model.                                                    *)
(***************************************************************************)
\* HTTP write requests (POST /api/v1/wallet) issued in one run.
MaxReq == 2
\* Largest config.ConcurrencyLimit a handler is constructed with.
MaxWorkers == 1
\* Largest balance a wallet row holds when the run starts.
MaxInitBalance == 2
\* Operations of other producers waiting on the list at one time.
MaxForeign == 1
\* Balance reads (GET /api/v1/wallets/{id}) issued in one run.
MaxReaders == 2
\* Capacity of WalletHandler.semaphore: make(chan struct{}, 1000), scaled down so
\* that the reads of one run can fill it.
SemaphoreCap == 1

(***************************************************************************)
(* Constants of the read path.                                             *)
(***************************************************************************)
\* for i := 0; i < 3; i++ around h.cache.Get
CacheAttempts == 3
\* for i := 0; i < 3; i++ around h.getBalanceFromDB
StoreAttempts == 3
\* h.cache.Set(ctx, cacheKey, balance, 30*time.Second)
CacheTTL == 30

(***************************************************************************)
(* Identities.                                                             *)
(***************************************************************************)
\* HTTP handler goroutines, one per write request; request r runs in thread r.
Http == 1..MaxReq
\* Goroutines of the worker pool started by ProcessQueue.
Workers == (MaxReq + 1)..(MaxReq + MaxWorkers)
Threads == Http \cup Workers
\* HTTP handler goroutines of the balance reads, one per read.
Readers == 1..MaxReaders

\* A transaction is <<thread, n>>: n = 1 is the transaction handleOperation
\* begins, n = 2 the one handleWithdraw begins.  NoTx: the row is not locked.
NoTx == <<0, 0>>

\* Ids of the rows the wallets table may hold; a run has "w1" alone or both.
Rows == {"w1", "w2"}

\* Wallet ids a client may send: a row of the wallets table, a well-formed id
\* without a row, the nil UUID, and a string uuid.Parse rejects.
GhostWallet == "ghost"
NilUUID == "nil-uuid"
InvalidUUID == "invalid-uuid"

DEPOSIT == "DEPOSIT"
WITHDRAW == "WITHDRAW"
OtherOperation == "TRANSFER"

\* Amounts clients send.  GeneralAmounts are currency units; ScenarioAmounts
\* are the amounts 300, 800 and 1000 counted in hundreds.
GeneralAmounts == {-1, 0, 1, 2}
ScenarioAmounts == {3, 8, 10}

VARIABLES
    debugMode,          \* WalletHandler.debugMode
    concurrencyLimit,   \* WalletHandler.config.ConcurrencyLimit
    balance,            \* wallets.balance of every row, committed
    txlog,              \* transactions rows of every wallet, committed, oldest first
    rowLock,            \* the transaction holding each wallet row's lock
    queue,              \* Redis list "wallet_operations", head (left end) first
    clients,            \* which requests the clients of this run send
    cacheFaults,        \* whether Redis commands may fail in this run
    hreq,               \* the write requests and what became of them
    ex,                 \* one goroutine per thread: where it is in the executor
    tx,                 \* tx[t][n]: the transactions thread t has open
    pool,               \* the ProcessQueue call: "off", "running", "returned"
    drops,              \* history: popped items that json.Unmarshal rejected
    ctxDone,            \* the context given to ProcessQueue is cancelled
    crashed,            \* the process died of a panic outside an HTTP handler
    refused,            \* history: positive_balance refused an UPDATE
    initBalance,        \* history: balance when the run started
    applied,            \* history: sum of the signed amounts of committed operations
    ncommit,            \* history: committed balance mutations per wallet
    dbFaults,           \* whether plain store reads may fail in this run
    rd,                 \* the balance reads: where each is in GetWalletBalance
    semaphore,          \* number of elements in channel WalletHandler.semaphore
    cache,              \* Redis keys "balance:<id>": the entry of each wallet id
    vreq,               \* the request a caller hands to ValidateWalletRequest
    verr                \* what ValidateWalletRequest returned for it

vars == <<debugMode, concurrencyLimit, clients, cacheFaults, balance, txlog, rowLock,
          queue, hreq, ex, tx, pool, drops, ctxDone, crashed, refused, initBalance,
          applied, ncommit, dbFaults, rd, semaphore, cache, vreq, verr>>

Wallets == DOMAIN balance

\* Groups of variables: the handler's configuration and environment, the read
\* path, the ledger with its history, the queue and its consumer, the validator
\* called on its own.
config == <<debugMode, concurrencyLimit, clients, cacheFaults, dbFaults>>
validation == <<vreq, verr>>
readside == <<rd, semaphore, cache>>
ledger == <<balance, txlog, initBalance, applied, ncommit>>
frontend == <<queue, pool, ctxDone, drops>>

(***************************************************************************)
(* service.WalletValidator: each rule returns "nil" or the error's name.   *)
(***************************************************************************)
uuidParse(s) == s # InvalidUUID

\* The nil *wallet.WalletRequest.
NilRequest == [wallet |-> "nil", op |-> "nil", amount |-> 0]

ValidateWalletID(id) == IF id = NilUUID THEN "ErrEmptyWalletID" ELSE "nil"

\* Variant: every amount is accepted.
ValidateAmount_accept(amount) == "nil"

ValidateAmount(amount) == IF amount < 0 THEN "ErrNegativeAmount" ELSE "nil"

ValidateOperationType(opType) ==
    IF opType # DEPOSIT /\ opType # WITHDRAW THEN "ErrInvalidOperationType" ELSE "nil"

\* Variant: the sufficiency check accepts every amount.
ValidateBalance_accept(currentBalance, requestAmount) == "nil"

ValidateBalance(currentBalance, requestAmount) ==
    IF currentBalance < requestAmount THEN "ErrInsufficientFunds" ELSE "nil"

\* Variant: the operation type is checked before the amount.
validateRequest_swapped(req) ==
    IF req = NilRequest THEN "ErrNilRequest"
    ELSE IF ~uuidParse(req.wallet) THEN "ErrInvalidUUIDFormat"
    ELSE IF ValidateWalletID(req.wallet) # "nil" THEN ValidateWalletID(req.wallet)
    ELSE IF ValidateOperationType(req.op) # "nil" THEN ValidateOperationType(req.op)
    ELSE ValidateAmount(req.amount)

validateRequest(req) ==
    IF req = NilRequest THEN "ErrNilRequest"
    ELSE IF ~uuidParse(req.wallet) THEN "ErrInvalidUUIDFormat"
    ELSE IF ValidateWalletID(req.wallet) # "nil" THEN ValidateWalletID(req.wallet)
    ELSE IF ValidateAmount(req.amount) # "nil" THEN ValidateAmount(req.amount)
    ELSE ValidateOperationType(req.op)

\* The storage constraint positive_balance CHECK (balance >= 0).
positive_balance(newBalance) == newBalance >= 0

\* Variant: every failure is answered 500.
StatusOf_flat(out) == IF out = "ok" THEN 200 ELSE 500

\* Status code of the WalletError handleOperation returns for each outcome.
\* handleWithdraw's errors are all wrapped as 500 by handleOperation.
StatusOf(out) ==
    CASE out = "ok" -> 200
      [] out \in {"ErrNegativeAmount", "ErrInvalidOperationType", "ErrInvalidUUID",
                  "ErrInsufficientFunds", "ErrInvalidOperation"} -> 400
      [] out = "ErrWalletNotFound" -> 404
      [] out \in {"ErrTxCreate", "ErrBalanceGet", "ErrBalanceUpdate", "ErrTxRecord",
                  "ErrTxCommit"} -> 500
      [] OTHER -> 0

(***************************************************************************)
(* Initial state: a handler built by NewWalletHandler (ConcurrencyLimit    *)
(* left at 0, debugMode from DEBUG_MODE) or by a struct literal as in      *)
(* TestProcessQueue (ConcurrencyLimit >= 1, debugMode false); one wallet   *)
(* row provisioned out of band, with an empty log.                         *)
(***************************************************************************)
\* tok: what the token bucket held when the request arrived.
NoRequest == [pc |-> "new", code |-> 0, out |-> "-", tok |-> 0]

\* Well-formed POST bodies: every wallet id in ids, both operations, every amount in as.
Requests(ids, as) ==
    [method : {"POST"}, body : {"json"}, wallet : ids, op : {DEPOSIT, WITHDRAW},
     amount : as]

\* Requests HandleWalletOperation answers without handing them on: another method,
\* a body that is not JSON, a wallet id that is no UUID or the nil UUID, an unknown
\* operation type.  (A negative amount is among GeneralAmounts.)
BadRequests ==
    LET good == [method |-> "POST", body |-> "json", wallet |-> "w1", op |-> DEPOSIT,
                 amount |-> 1]
    IN  {[good EXCEPT !.method = "GET"], [good EXCEPT !.body = "garbage"],
         [good EXCEPT !.wallet = InvalidUUID], [good EXCEPT !.wallet = NilUUID],
         [good EXCEPT !.op = OtherOperation]}

\* The requests sent in a run: any operation on the wallet with a general amount
\* and on the id without a row with a valid one, and the requests above; or the
\* scenario's operations; or deposits of 1 only; or operations of 1 on either of
\* two wallets.
ClientKinds == {"general", "scenario", "deposits", "pair"}

Inputs ==
    CASE clients = "general" ->
           Requests({"w1"}, GeneralAmounts) \cup Requests({GhostWallet}, {1})
             \cup BadRequests
      [] clients = "scenario" -> Requests({"w1"}, ScenarioAmounts)
      [] clients = "pair" -> Requests(Rows, {1})
      [] OTHER -> {in \in Requests({"w1"}, {1}) : in.op = DEPOSIT}

IdleThread == [pc |-> "free", rid |-> 0, wallet |-> "-", op |-> "-", amount |-> 0,
               cur |-> 0]

NoTransaction == [st |-> "none", wrote |-> FALSE, wbal |-> 0, wlog |-> <<>>]

\* A read not yet received.  nc, nd: calls of cache.Get and of getBalanceFromDB made;
\* gone: the request's context is cancelled; body: the response body written;
\* set: the detached goroutine that calls cache.Set ("none", "pending", "issued");
\* val, dbErr: the balance and the error the last store read returned.
NoRead == [pc |-> "new", id |-> "-", nc |-> 0, nd |-> 0, gone |-> FALSE, code |-> 0,
           out |-> "-", body |-> <<>>, set |-> "none", val |-> 0, dbErr |-> "nil"]

\* No entry under a key.
NoEntry == [val |-> <<>>, ttl |-> 0]

\* The string Redis keeps for a float64 given to Set, and Get returns.
Text(b) == <<"text", b>>

\* The start of a run on the wallet rows in rows: faults tells whether Redis commands, storeFaults whether
\* plain store reads may fail, warm whether "balance:<id>" may already hold the
\* wallet's balance from an earlier read.
Machine(rows, faults, storeFaults, warm) ==
    /\ concurrencyLimit \in 0..MaxWorkers
    /\ debugMode \in IF concurrencyLimit = 0 THEN BOOLEAN ELSE {FALSE}
    /\ clients \in ClientKinds
    /\ cacheFaults = faults
    /\ balance \in [rows -> 0..MaxInitBalance]
    /\ initBalance = balance
    /\ txlog = [w \in rows |-> <<>>]
    /\ rowLock = [w \in rows |-> NoTx]
    /\ queue = <<>>
    /\ hreq = [r \in Http |-> NoRequest]
    /\ ex = [t \in Threads |-> IdleThread]
    /\ tx = [t \in Threads |-> [n \in {1, 2} |-> NoTransaction]]
    /\ pool = "off"
    /\ drops = 0
    /\ ctxDone = FALSE
    /\ crashed = FALSE
    /\ refused = FALSE
    /\ applied = [w \in rows |-> 0]
    /\ ncommit = [w \in rows |-> 0]
    /\ dbFaults = storeFaults
    /\ rd = [g \in Readers |-> NoRead]
    /\ semaphore = 0
    /\ cache \in {[w \in rows |-> NoEntry]}
                 \cup IF warm
                      THEN {[w \in rows |-> [val |-> Text(balance[w]), ttl |-> CacheTTL]]}
                      ELSE {}

\* What ValidateWalletRequest returns: the rule that failed ("nil": none), wrapped
\* with ErrValidationPrefix when it is an error.  NotValidated: before the call.
NotValidated == [err |-> "-", wrapped |-> FALSE]

\* A run of the handler: the validator is called by the handler only.
Start(faults, storeFaults, warm) ==
    /\ Machine({"w1"}, faults, storeFaults, warm)
    /\ clients # "pair"
    /\ vreq = NilRequest
    /\ verr = NotValidated

\* A run of the write pipeline in which every Redis command succeeds.
Init == Start(FALSE, FALSE, FALSE)

(***************************************************************************)
(* Leaving the executor.                                                   *)
(***************************************************************************)
\* The deferred tx.Rollback(): it ends a transaction that is still active and
\* does nothing to one already committed or rolled back.
Rollback(x) ==
    IF x.st = "active" THEN [NoTransaction EXCEPT !.st = "rolledback"] ELSE x

\* The locks left when every transaction of thread t has ended.
Release(locks, t) ==
    [w \in DOMAIN locks |-> IF locks[w][1] = t THEN NoTx ELSE locks[w]]

\* handleOperation returns outcome out to its caller in thread t, which is working
\* on request rid; txs, locks and reqs are tx[t], rowLock and hreq as the returning
\* step leaves them.  The deferred rollbacks run; HandleWalletOperation (debug mode) answers
\* with the error's status or 200, ProcessQueueOperation drops the result and the
\* worker goroutine ends, freeing its slot.
Return(t, rid, out, txs, locks, reqs) ==
    /\ tx' = [tx EXCEPT ![t] = [n \in {1, 2} |-> Rollback(txs[n])]]
    /\ rowLock' = Release(locks, t)
    /\ ex' = [ex EXCEPT ![t] = [IdleThread EXCEPT !.pc = IF t \in Http THEN "done"
                                                                        ELSE "free"]]
    /\ hreq' = IF rid \in Http
               THEN [reqs EXCEPT ![rid] =
                       [@ EXCEPT !.pc = "done", !.out = out,
                                 !.code = IF t \in Http THEN StatusOf(out) ELSE @]]
               ELSE reqs
    /\ crashed' = crashed

\* A nil http.ResponseWriter is used (handleWithdraw is called with w = nil): the
\* goroutine panics.  The deferred rollbacks run while it unwinds.  net/http
\* recovers the panic of a handler goroutine and drops the connection without an
\* answer; in a worker goroutine nothing recovers it and the process dies, which
\* ends every open transaction.
Panic(t, rid, txs, locks, reqs) ==
    IF t \in Http
    THEN Return(t, rid, "panic", txs, locks, reqs)
    ELSE /\ crashed' = TRUE
         /\ tx' = [u \in Threads |->
                     [n \in {1, 2} |-> Rollback(IF u = t THEN txs[n] ELSE tx[u][n])]]
         /\ rowLock' = [w \in DOMAIN locks |-> NoTx]
         /\ ex' = [ex EXCEPT ![t] = IdleThread]
         /\ hreq' = IF rid \in Http THEN [reqs EXCEPT ![rid] = [@ EXCEPT !.out = "panic"]]
                                  ELSE reqs

(***************************************************************************)
(* handleOperation, lines 346-372: the two validations and beginTx(ctx).   *)
(* Thread t enters the executor with request req (id rid); ctxCancelled    *)
(* tells whether the caller's context is already cancelled, reqs is hreq   *)
(* as the caller leaves it.                                                *)
(***************************************************************************)
handleOperation(t, rid, req, ctxCancelled, reqs) ==
    IF ValidateAmount(req.amount) # "nil"
    THEN Return(t, rid, ValidateAmount(req.amount), tx[t], rowLock, reqs)
    ELSE IF ValidateOperationType(req.op) # "nil"
    THEN Return(t, rid, ValidateOperationType(req.op), tx[t], rowLock, reqs)
    ELSE IF ctxCancelled
    THEN Return(t, rid, "ErrTxCreate", tx[t], rowLock, reqs)
    ELSE /\ ex' = [ex EXCEPT ![t] = [pc |-> "lock", rid |-> rid, wallet |-> req.wallet,
                                     op |-> req.op, amount |-> req.amount, cur |-> 0]]
         /\ tx' = [tx EXCEPT ![t] = [n \in {1, 2} |->
                      IF n = 1 THEN [NoTransaction EXCEPT !.st = "active"]
                               ELSE NoTransaction]]
         /\ hreq' = IF rid \in Http
                    THEN [reqs EXCEPT ![rid] = [@ EXCEPT !.pc = IF t \in Http THEN "exec"
                                                                               ELSE @]]
                    ELSE reqs
         /\ UNCHANGED <<rowLock, crashed>>

(***************************************************************************)
(* HandleWalletOperation, lines 194-264, for request r.  allow is the      *)
(* answer of rateLimiter.Allow(): whether the token bucket, which refills  *)
(* with time, holds a token when the request arrives.                      *)
(***************************************************************************)
\* http.Error(w, err, code) and return before the request is handed on; reqs is
\* hreq with the arrival of request r recorded.
Reject(r, code, err, reqs) ==
    /\ hreq' = [reqs EXCEPT ![r] = [@ EXCEPT !.pc = "done", !.code = code, !.out = err]]
    /\ UNCHANGED <<ex, tx, rowLock, crashed, queue>>

\* What the token bucket of rateLimiter may hold when a request arrives, as far as
\* Allow() tells it apart: 0 is an empty bucket, 1 at least one token.  The bucket
\* refills with time, 2000 tokens a second.
TokenLevels == {0, 1}

\* Variant: the limiter lets every request pass.
Allow_always(tokens) == TRUE

\* rateLimiter.Allow(): a token is there to be taken.
Allow(tokens) == tokens >= 1

\* json.Marshal of the validated request: what is pushed onto the list.  enc tells
\* how the text encodes the amount: Marshal writes a float64 as a JSON number.
Marshal(rid, req) == [rid |-> rid, wallet |-> req.wallet, op |-> req.op,
                      amount |-> req.amount, enc |-> "number"]

\* Variant: the element is added at the tail, the end BRPop takes from.
LPush_tail(list, item) == Append(list, item)

\* cache.LPush(ctx, "wallet_operations", item): the element becomes the head.
LPush(list, item) == <<item>> \o list

\* Variant: the error of LPush is not looked at.
LPushFailed_ignored(pushed) == FALSE

\* err = h.cache.LPush(...).Err(); err != nil, for a push that did or did not happen.
LPushFailed(pushed) == ~pushed

HandleWalletOperation(r) ==
    /\ ~crashed
    /\ hreq[r].pc = "new"
    /\ \A q \in Http : q < r => hreq[q].pc # "new"
    /\ \E in \in Inputs, tokens \in TokenLevels,
          pushed \in IF cacheFaults THEN BOOLEAN ELSE {TRUE} :
         LET req == [wallet |-> in.wallet, op |-> in.op, amount |-> in.amount]
             seen == [hreq EXCEPT ![r].tok = tokens]
         IN
         IF ~Allow(tokens)
         THEN Reject(r, 429, "ErrTooManyRequests", seen)
         ELSE IF in.method # "POST" THEN Reject(r, 405, "ErrMethodNotAllowed", seen)
              ELSE IF in.body # "json" THEN Reject(r, 400, "ErrParseRequest", seen)
              ELSE IF ~uuidParse(in.wallet) THEN Reject(r, 400, "ErrInvalidUUID", seen)
              ELSE IF validateRequest(req) # "nil"
              THEN Reject(r, 400, validateRequest(req), seen)
              ELSE IF debugMode
              THEN /\ handleOperation(r, r, req, FALSE, seen)
                   /\ UNCHANGED queue
              ELSE /\ queue' = IF pushed THEN LPush(queue, Marshal(r, req)) ELSE queue
                   /\ hreq' = [seen EXCEPT ![r] =
                                 IF LPushFailed(pushed)
                                 THEN [@ EXCEPT !.pc = "done", !.code = 500,
                                                !.out = "ErrQueueAdd"]
                                 ELSE [@ EXCEPT !.pc = "done", !.code = 202]]
                   /\ UNCHANGED <<ex, tx, rowLock, crashed>>
    /\ UNCHANGED <<debugMode, concurrencyLimit, clients, cacheFaults, balance, txlog,
                   pool, drops, ctxDone, refused, initBalance, applied, ncommit,
                   dbFaults,
                   readside, validation>>

(***************************************************************************)
(* The executor's storage calls.                                           *)
(***************************************************************************)

\* Variant: the statement locks the table, not the row.
RowLockFree_table(w) == \A v \in Wallets : rowLock[v] = NoTx

\* Variant: a plain SELECT, which never waits for the row's lock.
RowLockFree_nowait(w) == TRUE

\* SELECT ... FOR UPDATE returns once no other transaction holds the row's lock.
RowLockFree(w) == rowLock[w] = NoTx

\* The signed amount of a request: what it is meant to add to the balance.
Signed(op, amount) == IF op = DEPOSIT THEN amount ELSE 0 - amount

\* handleOperation, lines 374-431 up to its next storage call: uuid.Parse, then
\* getCurrentBalance (SELECT balance ... FOR UPDATE, which waits for the row lock),
\* ValidateBalance, and the switch on the operation type; for WITHDRAW the switch
\* calls handleWithdraw, whose first storage call, beginTx, is part of this step.
hop_getCurrentBalance(t) ==
    /\ ~crashed
    /\ ex[t].pc = "lock"
    /\ LET e == ex[t]
           w == e.wallet
           end(out) == Return(t, e.rid, out, tx[t], rowLock, hreq)
       IN  IF ~uuidParse(w) THEN end("ErrInvalidUUID")
           ELSE IF tx[t][1].st # "active" THEN end("ErrBalanceGet")
           ELSE IF w \notin Wallets THEN end("ErrWalletNotFound")
           ELSE /\ RowLockFree(w)
                /\ IF ValidateBalance(balance[w], e.amount) # "nil"
                   THEN end(ValidateBalance(balance[w], e.amount))
                   ELSE IF e.op \notin {DEPOSIT, WITHDRAW} THEN end("ErrInvalidOperation")
                   ELSE /\ rowLock' = [rowLock EXCEPT ![w] = <<t, 1>>]
                        /\ ex' = [ex EXCEPT ![t] =
                                    [e EXCEPT !.cur = balance[w],
                                              !.pc = IF e.op = DEPOSIT THEN "update"
                                                                       ELSE "w_lock"]]
                        /\ tx' = [tx EXCEPT ![t][2] =
                                    IF e.op = WITHDRAW
                                    THEN [NoTransaction EXCEPT !.st = "active"]
                                    ELSE @]
                        /\ UNCHANGED <<hreq, crashed>>
    /\ UNCHANGED <<config, validation, readside, ledger, frontend, refused>>

\* handleOperation, lines 409-417: newBalance := currentBalance + amount and
\* updateBalance (UPDATE wallets SET balance), checked by positive_balance.
hop_updateBalance(t) ==
    /\ ~crashed
    /\ ex[t].pc = "update"
    /\ LET e == ex[t]
           newBalance == e.cur + e.amount
           end(out) == Return(t, e.rid, out, tx[t], rowLock, hreq)
       IN  IF tx[t][1].st # "active"
           THEN end("ErrBalanceUpdate") /\ UNCHANGED refused
           ELSE IF ~positive_balance(newBalance)
           THEN end("ErrBalanceUpdate") /\ refused' = TRUE
           ELSE /\ tx' = [tx EXCEPT ![t][1] = [@ EXCEPT !.wrote = TRUE,
                                                         !.wbal = newBalance]]
                /\ ex' = [ex EXCEPT ![t] = [e EXCEPT !.pc = "record"]]
                /\ UNCHANGED <<hreq, rowLock, crashed, refused>>
    /\ UNCHANGED <<config, validation, readside, ledger, frontend>>

\* Variant: the deposit path goes on to commit without its INSERT.
hop_recordTransaction_skip(t) ==
    /\ ~crashed
    /\ ex[t].pc = "record"
    /\ ex' = [ex EXCEPT ![t] = [@ EXCEPT !.pc = "commit"]]
    /\ UNCHANGED <<tx, hreq, rowLock, crashed>>
    /\ UNCHANGED <<config, validation, readside, ledger, frontend, refused>>

\* handleOperation, lines 433-439: recordTransaction(tx, id, req.Amount, type)
\* (INSERT INTO transactions).
hop_recordTransaction(t) ==
    /\ ~crashed
    /\ ex[t].pc = "record"
    /\ LET e == ex[t] IN
           IF tx[t][1].st # "active"
           THEN Return(t, e.rid, "ErrTxRecord", tx[t], rowLock, hreq)
           ELSE /\ tx' = [tx EXCEPT ![t][1] =
                            [@ EXCEPT !.wlog = Append(@, [amount |-> e.amount,
                                                          op |-> e.op])]]
                /\ ex' = [ex EXCEPT ![t] = [e EXCEPT !.pc = "commit"]]
                /\ UNCHANGED <<hreq, rowLock, crashed>>
    /\ UNCHANGED <<config, validation, readside, ledger, frontend, refused>>

\* COMMIT of transaction <<t, n>> on wallet w: its writes become the committed
\* state, all at once.  The history variables follow the request, not the writes.
CommitTx(t, n, w) ==
    LET x == tx[t][n] IN
    /\ balance' = IF x.wrote THEN [balance EXCEPT ![w] = x.wbal] ELSE balance
    /\ txlog' = [txlog EXCEPT ![w] = @ \o x.wlog]
    /\ ncommit' = IF x.wrote THEN [ncommit EXCEPT ![w] = @ + 1] ELSE ncommit
    /\ applied' = [applied EXCEPT ![w] = @ + Signed(ex[t].op, ex[t].amount)]
    /\ UNCHANGED initBalance

\* Variant: the commit of a deposit deletes the wallet's cached balance.
hop_Commit_invalidate(t) ==
    /\ ~crashed
    /\ ex[t].pc = "commit"
    /\ LET e == ex[t] IN
           IF tx[t][1].st # "active"
           THEN /\ Return(t, e.rid, "ErrTxCommit", tx[t], rowLock, hreq)
                /\ UNCHANGED <<ledger, cache>>
           ELSE /\ CommitTx(t, 1, e.wallet)
                /\ cache' = [cache EXCEPT ![e.wallet] = NoEntry]
                /\ Return(t, e.rid, "ok",
                          [tx[t] EXCEPT ![1] = [NoTransaction EXCEPT !.st = "committed"]],
                          rowLock, hreq)
    /\ UNCHANGED <<config, validation, rd, semaphore, frontend, refused>>

\* handleOperation, lines 441-450: tx.Commit() and return nil.
hop_Commit(t) ==
    /\ ~crashed
    /\ ex[t].pc = "commit"
    /\ LET e == ex[t] IN
           IF tx[t][1].st # "active"
           THEN /\ Return(t, e.rid, "ErrTxCommit", tx[t], rowLock, hreq)
                /\ UNCHANGED ledger
           ELSE /\ CommitTx(t, 1, e.wallet)
                /\ Return(t, e.rid, "ok",
                          [tx[t] EXCEPT ![1] = [NoTransaction EXCEPT !.st = "committed"]],
                          rowLock, hreq)
    /\ UNCHANGED <<config, validation, readside, frontend, refused>>

\* handleWithdraw, lines 461-484: uuid.Parse, getCurrentBalance in the second
\* transaction (it waits for the row lock, which the first transaction of the same
\* operation holds), ValidateBalance; an error is reported with http.Error(w, ...)
\* on the nil writer.
hw_getCurrentBalance(t) ==
    /\ ~crashed
    /\ ex[t].pc = "w_lock"
    /\ LET e == ex[t]
           w == e.wallet
       IN  /\ RowLockFree(w)
           /\ IF ValidateBalance(balance[w], e.amount) # "nil"
              THEN Panic(t, e.rid, tx[t], rowLock, hreq)
              ELSE /\ rowLock' = [rowLock EXCEPT ![w] = <<t, 2>>]
                   /\ ex' = [ex EXCEPT ![t] = [e EXCEPT !.cur = balance[w],
                                                        !.pc = "w_update"]]
                   /\ UNCHANGED <<tx, hreq, crashed>>
    /\ UNCHANGED <<config, validation, readside, ledger, frontend, refused>>

\* handleWithdraw, lines 486-490: newBalance := currentBalance - amount and
\* updateBalance, checked by positive_balance.
hw_updateBalance(t) ==
    /\ ~crashed
    /\ ex[t].pc = "w_update"
    /\ LET e == ex[t]
           newBalance == e.cur - e.amount
       IN  IF ~positive_balance(newBalance)
           THEN Panic(t, e.rid, tx[t], rowLock, hreq) /\ refused' = TRUE
           ELSE /\ tx' = [tx EXCEPT ![t][2] = [@ EXCEPT !.wrote = TRUE,
                                                         !.wbal = newBalance]]
                /\ ex' = [ex EXCEPT ![t] = [e EXCEPT !.pc = "w_record"]]
                /\ UNCHANGED <<hreq, rowLock, crashed, refused>>
    /\ UNCHANGED <<config, validation, readside, ledger, frontend>>

\* Variant: the withdrawal is logged with req.Amount, not -req.Amount.
hw_recordTransaction_unsigned(t) ==
    /\ ~crashed
    /\ ex[t].pc = "w_record"
    /\ tx' = [tx EXCEPT ![t][2] =
                [@ EXCEPT !.wlog = Append(@, [amount |-> ex[t].amount,
                                              op |-> ex[t].op])]]
    /\ ex' = [ex EXCEPT ![t] = [@ EXCEPT !.pc = "w_commit"]]
    /\ UNCHANGED <<hreq, rowLock, crashed>>
    /\ UNCHANGED <<config, validation, readside, ledger, frontend, refused>>

\* handleWithdraw, lines 492-495: recordTransaction(tx, id, -req.Amount, type).
hw_recordTransaction(t) ==
    /\ ~crashed
    /\ ex[t].pc = "w_record"
    /\ tx' = [tx EXCEPT ![t][2] =
                [@ EXCEPT !.wlog = Append(@, [amount |-> 0 - ex[t].amount,
                                              op |-> ex[t].op])]]
    /\ ex' = [ex EXCEPT ![t] = [@ EXCEPT !.pc = "w_commit"]]
    /\ UNCHANGED <<hreq, rowLock, crashed>>
    /\ UNCHANGED <<config, validation, readside, ledger, frontend, refused>>

\* handleWithdraw, lines 497-502: tx.Commit(), then sendSuccessResponse(w, ...)
\* on the nil writer.  handleWithdraw thus never returns nil, and a withdrawal
\* never reaches handleOperation's own recordTransaction and Commit (433-450).
hw_Commit(t) ==
    /\ ~crashed
    /\ ex[t].pc = "w_commit"
    /\ CommitTx(t, 2, ex[t].wallet)
    /\ Panic(t, ex[t].rid,
             [tx[t] EXCEPT ![2] = [NoTransaction EXCEPT !.st = "committed"]],
             rowLock, hreq)
    /\ UNCHANGED <<config, validation, readside, frontend, refused>>

(***************************************************************************)
(* The request's context (debug mode: handleOperation runs under           *)
(* r.Context(), and beginTx(ctx) ties the first transaction to it).        *)
(***************************************************************************)
\* The client of request r closes its connection while the handler runs: net/http
\* cancels r.Context(), and database/sql rolls back the transaction begun with
\* BeginTx(ctx): the first transaction of request r ends, its row lock is released
\* and every later call on it fails.
ClientDisconnect(r) ==
    /\ ~crashed
    /\ hreq[r].pc = "exec"
    /\ tx[r][1].st = "active"
    /\ tx' = [tx EXCEPT ![r][1] = Rollback(@)]
    /\ rowLock' = [w \in Wallets |-> IF rowLock[w] = <<r, 1>> THEN NoTx ELSE rowLock[w]]
    /\ UNCHANGED <<config, validation, readside, ledger, frontend, refused, ex, hreq, crashed>>

(***************************************************************************)
(* ProcessQueue, lines 266-281, and processQueueItem, lines 283-305.       *)
(***************************************************************************)
\* ProcessQueue(ctx) is called.  (In debug mode nothing is ever pushed onto the
\* list, and a pool would only wait in BRPop: the call is modelled for handlers
\* that queue.)
StartProcessQueue ==
    /\ ~crashed
    /\ ~debugMode
    /\ pool = "off"
    /\ pool' = "running"
    /\ UNCHANGED <<config, validation, readside, ledger, queue, ctxDone, drops, refused,
                   ex, tx, hreq, rowLock, crashed>>

\* The context given to ProcessQueue is cancelled.
CancelContext ==
    /\ ~crashed
    /\ pool = "running"
    /\ ~ctxDone
    /\ ctxDone' = TRUE
    /\ UNCHANGED <<config, validation, readside, ledger, queue, pool, drops, refused, ex,
                   tx, hreq, rowLock, crashed>>

Busy == {k \in Workers : ex[k].pc # "free"}

\* Variant: the send on workers never blocks.
SlotFree_unbounded == TRUE

\* workers <- struct{}{} can proceed: fewer than cap(workers) = ConcurrencyLimit
\* goroutines hold a slot (with capacity 0 nothing ever receives, and it never can).
SlotFree == Cardinality(Busy) < concurrencyLimit

\* The select's case workers <- struct{}{}, which select may take whether or not
\* ctx is done: a goroutine is started, which calls processQueueItem.  A BRPop
\* called with a context already cancelled fails at once ("late"); one called
\* before waits for an element ("pop").
ProcessQueue_spawn(k) ==
    /\ ~crashed
    /\ pool = "running"
    /\ SlotFree
    /\ ex[k].pc = "free"
    /\ \A j \in Workers : j < k => ex[j].pc # "free"
    /\ ex' = [ex EXCEPT ![k] = [IdleThread EXCEPT !.pc = IF ctxDone THEN "late"
                                                                    ELSE "pop"]]
    /\ UNCHANGED <<config, validation, readside, ledger, frontend, refused, tx, hreq, rowLock, crashed>>

\* Variant: ProcessQueue returns only once none of its goroutines holds a slot.
ProcessQueue_return_drained ==
    /\ ~crashed
    /\ pool = "running"
    /\ ctxDone
    /\ Busy = {}
    /\ pool' = "returned"
    /\ UNCHANGED <<config, validation, readside, ledger, queue, ctxDone, drops, refused,
                   ex, tx, hreq, rowLock, crashed>>

\* The select's case <-ctx.Done(): ProcessQueue returns, whatever its goroutines
\* are doing.
ProcessQueue_return ==
    /\ ~crashed
    /\ pool = "running"
    /\ ctxDone
    /\ pool' = "returned"
    /\ UNCHANGED <<config, validation, readside, ledger, queue, ctxDone, drops, refused,
                   ex, tx, hreq, rowLock, crashed>>

\* BRPop(ctx, 0, "wallet_operations") on a list that is not empty returns its tail.
BRPop_item(list) == list[Len(list)]

\* Variant: BRPop reads the tail and leaves it on the list.
BRPop_rest_peek(list) == list

\* The list BRPop leaves: the tail is removed.
BRPop_rest(list) == SubSeq(list, 1, Len(list) - 1)

\* Variant: a decoder that converts a quoted number.
Unmarshal_lenient(item) == TRUE

\* json.Unmarshal([]byte(result[1]), &operation) returns no error: a quoted
\* number cannot be stored in the float64 field Amount.
Unmarshal(item) == item.enc = "number"

\* processQueueItem: BRPop takes the tail of the list (LPush adds at the head);
\* json.Unmarshal, whose failure ends the goroutine; then ProcessQueueOperation
\* -> handleOperation under context.Background().
processQueueItem_pop(k) ==
    /\ ~crashed
    /\ ex[k].pc = "pop"
    /\ queue # <<>>
    /\ LET item == BRPop_item(queue) IN
         /\ queue' = BRPop_rest(queue)
         /\ IF ~Unmarshal(item)
            THEN /\ ex' = [ex EXCEPT ![k] = IdleThread]
                 /\ drops' = drops + 1
                 /\ UNCHANGED <<tx, hreq, rowLock, crashed>>
            ELSE /\ handleOperation(k, item.rid,
                                    [wallet |-> item.wallet, op |-> item.op,
                                     amount |-> item.amount], FALSE, hreq)
                 /\ UNCHANGED drops
    /\ UNCHANGED <<config, validation, readside, ledger, pool, ctxDone, refused>>

\* processQueueItem: BRPop fails because ctx is cancelled; the goroutine returns.
\* A BRPop that was already waiting when ctx was cancelled may fail like this, or
\* go on waiting and return an element (processQueueItem_pop): the client looks at
\* ctx when it takes a connection, and a reply may be on its way.
processQueueItem_cancelled(k) ==
    /\ ~crashed
    /\ ex[k].pc \in {"pop", "late"}
    /\ ctxDone
    /\ ex' = [ex EXCEPT ![k] = IdleThread]
    /\ UNCHANGED <<config, validation, readside, ledger, frontend, refused, tx, hreq, rowLock, crashed>>

\* processQueueItem: BRPop fails because Redis does; the goroutine returns.
processQueueItem_fault(k) ==
    /\ ~crashed
    /\ ex[k].pc = "pop"
    /\ cacheFaults
    /\ ex' = [ex EXCEPT ![k] = IdleThread]
    /\ UNCHANGED <<config, validation, readside, ledger, frontend, refused, tx, hreq, rowLock, crashed>>

\* What another producer may leave on the list: processQueueItem unmarshals
\* whatever it pops, here a well-formed operation whose walletId is not a UUID,
\* and a deposit whose amount is written as a quoted number.  They carry request
\* id 0.
ForeignItems ==
    {[rid |-> 0, wallet |-> InvalidUUID, op |-> DEPOSIT, amount |-> 1, enc |-> "number"],
     [rid |-> 0, wallet |-> "w1", op |-> DEPOSIT, amount |-> 1, enc |-> "string"]}

\* The elements of the list that json.Unmarshal rejects.
Undecodable(list) == {i \in 1..Len(list) : ~Unmarshal(list[i])}

\* Another producer pushes an element onto "wallet_operations".
ForeignPush ==
    /\ ~crashed
    /\ Cardinality({i \in 1..Len(queue) : queue[i].rid = 0}) < MaxForeign
    /\ \E item \in ForeignItems :
         /\ item.enc = "number" \/ drops + Cardinality(Undecodable(queue)) < MaxForeign
         /\ queue' = LPush(queue, item)
    /\ UNCHANGED <<config, validation, readside, ledger, pool, ctxDone, drops, refused, ex,
                   tx, hreq, rowLock, crashed>>

(***************************************************************************)
(* GetWalletBalance, lines 123-192: one step per cache or store call.      *)
(* time.Sleep between two attempts changes nothing.  sendResponse writes a *)
(* short body into the response's buffer, which does not fail.             *)
(***************************************************************************)
writeside == <<ledger, frontend, refused, ex, tx, hreq, rowLock, crashed>>

\* Wallet ids a read may name.
ReadIds == {"w1", GhostWallet, InvalidUUID}

\* The bodies json.NewEncoder(w).Encode writes: of the string cache.Get returned,
\* and of map[string]float64{"balance": balance}.
JSONString(text) == <<"string", text>>
JSONObject(b) == <<"object", "balance", b>>

\* Variant: the slot is taken whatever the channel holds.
TryAcquire_always(n) == TRUE

\* select { case h.semaphore <- struct{}{}: ... default: ... }: the send succeeds
\* when the channel holds fewer elements than its capacity.
TryAcquire(n) == n < SemaphoreCap

\* The entry Redis holds under "balance:<id>".
CacheLookup(id) == IF id \in DOMAIN cache THEN cache[id] ELSE NoEntry

\* Variant: the entry is written with no expiration.
SetEntry_forever(b) == [val |-> Text(b), ttl |-> 0]

\* What cache.Set(ctx, cacheKey, balance, 30*time.Second) leaves under the key.
SetEntry(b) == [val |-> Text(b), ttl |-> CacheTTL]

\* Variant: the cache is given up after its first failure.
CacheLoopEnds_early(n) == n = 1

\* for i := 0; i < 3; i++ around cache.Get: n calls were made and the loop ends.
CacheLoopEnds(n) == n = CacheAttempts

\* Variant: the store is read once more than the loop allows.
StoreLoopEnds_late(n) == n = StoreAttempts + 1

\* for i := 0; i < 3; i++ around getBalanceFromDB: n calls were made and the loop
\* ends.
StoreLoopEnds(n) == n = StoreAttempts

\* Variant: a missing row is taken for any other failure.
IsNotFound_never(err) == FALSE

\* dbErr.Error() == ErrWalletNotFound
IsNotFound(err) == err = "ErrWalletNotFound"

\* Variant: the SELECT sees what an open transaction has written.
SelectBalance_dirty(w) ==
    IF \E t \in Threads, n \in {1, 2} : tx[t][n].st = "active" /\ tx[t][n].wrote
    THEN (CHOOSE x \in {tx[t][n] : t \in Threads, n \in {1, 2}} :
             x.st = "active" /\ x.wrote).wbal
    ELSE balance[w]

\* SELECT balance FROM wallets WHERE id = $1 outside any transaction: the row as
\* the last commit left it.
SelectBalance(w) == balance[w]

\* Variant: the handler returns without the deferred receive from the semaphore.
Finish_keep(g, rec, code, out, body, held) ==
    /\ rd' = [rd EXCEPT ![g] = [rec EXCEPT !.pc = "done", !.code = code, !.out = out,
                                           !.body = body, !.gone = TRUE]]
    /\ semaphore' = semaphore

\* The handler of read g returns: the response is complete, the deferred cancel()
\* cancels the request's context and, when the read held a slot, the deferred
\* receive frees it.  rec is rd[g] as the returning step leaves it.
Finish(g, rec, code, out, body, held) ==
    /\ rd' = [rd EXCEPT ![g] = [rec EXCEPT !.pc = "done", !.code = code, !.out = out,
                                           !.body = body, !.gone = TRUE]]
    /\ semaphore' = IF held THEN semaphore - 1 ELSE semaphore

\* Lines 123-150: CORS headers, the preflight answer, the semaphore, the timeout
\* context and uuid.Parse of the path's last segment.
GetWalletBalance(g) ==
    /\ rd[g].pc = "new"
    /\ \A h \in Readers : h < g => rd[h].pc # "new"
    /\ \E method \in {"GET", "OPTIONS"}, id \in ReadIds :
         LET rec == [rd[g] EXCEPT !.id = id] IN
         IF method = "OPTIONS"
         THEN Finish(g, rec, 200, "preflight", <<>>, FALSE)
         ELSE IF ~TryAcquire(semaphore)
         THEN Finish(g, rec, 503, "ErrServerBusy", <<>>, FALSE)
         ELSE IF ~uuidParse(id)
         THEN /\ rd' = [rd EXCEPT ![g] = [rec EXCEPT !.pc = "done", !.code = 400,
                                                     !.out = "ErrInvalidUUID",
                                                     !.gone = TRUE]]
              /\ semaphore' = semaphore
         ELSE /\ rd' = [rd EXCEPT ![g] = [rec EXCEPT !.pc = "cache"]]
              /\ semaphore' = semaphore + 1
    /\ UNCHANGED <<config, validation, writeside, cache>>

\* Lines 154-161: one h.cache.Get(ctx, cacheKey).  It fails when the key is absent
\* (redis.Nil), when Redis fails or when ctx is cancelled; a value is sent as it is
\* and the handler returns.  After the third failure the loop ends.
GetWalletBalance_cacheGet(g) ==
    /\ rd[g].pc = "cache"
    /\ LET r == rd[g]
           e == CacheLookup(r.id)
           rec == [r EXCEPT !.nc = @ + 1]
       IN  \/ /\ e # NoEntry
              /\ ~r.gone
              /\ Finish(g, rec, 200, "ok", JSONString(e.val), TRUE)
           \/ /\ e = NoEntry \/ cacheFaults \/ r.gone
              /\ rd' = [rd EXCEPT ![g] =
                          [rec EXCEPT !.pc = IF CacheLoopEnds(rec.nc) THEN "store"
                                                                      ELSE "cache"]]
              /\ semaphore' = semaphore
    /\ UNCHANGED <<config, validation, writeside, cache>>

\* Lines 163-191 and getBalanceFromDB: one plain SELECT balance FROM wallets.  It
\* fails when the store does or when ctx is cancelled; sql.ErrNoRows is answered
\* 404 at once; the third failure is answered 503; a balance starts the goroutine
\* that calls cache.Set and is sent as {"balance": balance}.
GetWalletBalance_getBalanceFromDB(g) ==
    /\ rd[g].pc = "store"
    /\ LET r == rd[g]
           results == (IF dbFaults \/ r.gone THEN {"ErrBalanceGetDB"} ELSE {})
                        \cup (IF r.gone THEN {}
                              ELSE IF r.id \in Wallets THEN {"nil"}
                              ELSE {"ErrWalletNotFound"})
       IN  \E dbErr \in results :
             LET rec == [r EXCEPT !.nd = @ + 1, !.dbErr = dbErr] IN
             IF dbErr = "nil"
             THEN Finish(g, [rec EXCEPT !.val = SelectBalance(r.id), !.set = "pending"],
                         200, "ok", JSONObject(SelectBalance(r.id)), TRUE)
             ELSE IF IsNotFound(dbErr)
             THEN Finish(g, rec, 404, "ErrWalletNotFound", <<>>, TRUE)
             ELSE IF StoreLoopEnds(rec.nd)
             THEN Finish(g, rec, 503, "ErrBalanceRetrievalFail", <<>>, TRUE)
             ELSE rd' = [rd EXCEPT ![g] = rec] /\ semaphore' = semaphore
    /\ UNCHANGED <<config, validation, writeside, cache>>

\* Lines 182-186: the detached goroutine calls h.cache.Set under a context derived
\* from context.Background(); the command may fail when Redis does.
GetWalletBalance_cacheSet(g) ==
    /\ rd[g].set = "pending"
    /\ \E done \in IF cacheFaults THEN BOOLEAN ELSE {TRUE} :
         cache' = IF done THEN [cache EXCEPT ![rd[g].id] = SetEntry(rd[g].val)]
                          ELSE cache
    /\ rd' = [rd EXCEPT ![g].set = "issued"]
    /\ UNCHANGED <<config, validation, writeside, semaphore>>

\* The request's context is cancelled while the handler runs: the client closed
\* the connection, or the 5 seconds of context.WithTimeout have passed.
RequestCancelled(g) ==
    /\ rd[g].pc \in {"cache", "store"}
    /\ ~rd[g].gone
    /\ rd' = [rd EXCEPT ![g].gone = TRUE]
    /\ UNCHANGED <<config, validation, writeside, semaphore, cache>>

\* Redis drops an entry whose time to live has passed.
CacheExpire ==
    /\ \E w \in DOMAIN cache :
         /\ cache[w] # NoEntry
         /\ cache[w].ttl > 0
         /\ cache' = [cache EXCEPT ![w] = NoEntry]
    /\ UNCHANGED <<config, validation, writeside, rd, semaphore>>

(***************************************************************************)
(* The specification.                                                      *)
(***************************************************************************)
Executor(t) ==
    \/ hop_getCurrentBalance(t)
    \/ hop_updateBalance(t)
    \/ hop_recordTransaction(t)
    \/ hop_Commit(t)
    \/ hw_getCurrentBalance(t)
    \/ hw_updateBalance(t)
    \/ hw_recordTransaction(t)
    \/ hw_Commit(t)

Worker(k) ==
    \/ ProcessQueue_spawn(k)
    \/ processQueueItem_pop(k)

Next ==
    \/ \E r \in Http : HandleWalletOperation(r)
    \/ \E t \in Threads : Executor(t)
    \/ \E r \in Http : ClientDisconnect(r)
    \/ StartProcessQueue
    \/ \E k \in Workers : Worker(k)

Spec == Init /\ [][Next]_vars

\* Goroutines that can run do run: every thread's next executor step and the
\* worker pool's loop and workers; ProcessQueue is eventually called on a handler
\* that queues.  Clients are not obliged to send requests or to disconnect.
Fairness ==
    /\ \A t \in Threads : WF_vars(Executor(t))
    /\ \A k \in Workers : WF_vars(Worker(k))
    /\ WF_vars(StartProcessQueue)

FairSpec == Spec /\ Fairness

(***************************************************************************)
(* The queueing handler in a harsher environment: Redis commands may fail  *)
(* and the list is shared with other producers; its own clients send       *)
(* deposits that pass validation.  A handler that queues                   *)
(* never runs handleWithdraw past its first storage call, which waits for  *)
(* the row lock of the operation's own first transaction.                  *)
(***************************************************************************)
EnvInit ==
    /\ Start(TRUE, FALSE, FALSE)
    /\ ~debugMode
    /\ clients = "deposits"

EnvNext ==
    \/ \E r \in Http : HandleWalletOperation(r)
    \/ \E t \in Threads : hop_getCurrentBalance(t)
    \/ \E t \in Threads : hop_updateBalance(t)
    \/ \E t \in Threads : hop_recordTransaction(t)
    \/ \E t \in Threads : hop_Commit(t)
    \/ StartProcessQueue
    \/ \E k \in Workers : Worker(k)
    \/ \E k \in Workers : processQueueItem_fault(k)
    \/ ForeignPush

EnvSpec == EnvInit /\ [][EnvNext]_vars

(***************************************************************************)
(* The read path alone, over a ledger nobody writes to: Redis and the      *)
(* store may fail, and the key may hold the balance from an earlier read.  *)
(* The wallet's balance is positive, so that a balance read differs from   *)
(* the zero value of the handler's variable.                               *)
(***************************************************************************)
ReadInit ==
    /\ Start(TRUE, TRUE, TRUE)
    /\ balance["w1"] = MaxInitBalance
    /\ ~debugMode
    /\ concurrencyLimit = 0
    /\ clients = "general"

Reader(g) ==
    \/ GetWalletBalance_cacheGet(g)
    \/ GetWalletBalance_getBalanceFromDB(g)
    \/ GetWalletBalance_cacheSet(g)

ReadNext ==
    \/ \E g \in Readers : GetWalletBalance(g)
    \/ \E g \in Readers : Reader(g)
    \/ \E g \in Readers : RequestCancelled(g)
    \/ CacheExpire

ReadSpec == ReadInit /\ [][ReadNext]_vars

\* Every goroutine of a read that can run does run; clients need not send reads.
FairReadSpec == ReadSpec /\ \A g \in Readers : WF_vars(Reader(g))

(***************************************************************************)
(* Reads next to writes: a handler in debug mode applies deposits inline   *)
(* while balances are read through the cache; nothing fails, entries of    *)
(* the cache expire, and the wallet holds enough for the executor's        *)
(* sufficiency check to let a deposit pass.                                *)
(***************************************************************************)
MixInit ==
    /\ Start(FALSE, FALSE, FALSE)
    /\ balance["w1"] = MaxInitBalance
    /\ debugMode
    /\ clients = "deposits"

MixNext ==
    \/ \E r \in Http : HandleWalletOperation(r)
    \/ \E t \in Threads : hop_getCurrentBalance(t)
    \/ \E t \in Threads : hop_updateBalance(t)
    \/ \E t \in Threads : hop_recordTransaction(t)
    \/ \E t \in Threads : hop_Commit(t)
    \/ \E g \in Readers : GetWalletBalance(g)
    \/ \E g \in Readers : Reader(g)
    \/ CacheExpire

MixSpec == MixInit /\ [][MixNext]_vars

(***************************************************************************)
(* The validator on its own, as TestWalletValidator calls it: one request, *)
(* absent or with any id, operation type and amount, is validated.         *)
(***************************************************************************)
ValidatorInputs ==
    {NilRequest}
      \cup [wallet : {"w1", GhostWallet, NilUUID, InvalidUUID},
            op : {DEPOSIT, WITHDRAW, OtherOperation},
            amount : GeneralAmounts \cup ScenarioAmounts]

\* WalletValidator.ValidateWalletRequest(req), lines 96-101.
ValidateWalletRequest ==
    /\ verr = NotValidated
    /\ verr' = [err |-> validateRequest(vreq), wrapped |-> validateRequest(vreq) # "nil"]
    /\ UNCHANGED <<config, readside, writeside, vreq>>

ValidatorInit ==
    /\ Machine({"w1"}, FALSE, FALSE, FALSE)
    /\ ~debugMode
    /\ concurrencyLimit = 0
    /\ clients = "general"
    /\ balance["w1"] = 0
    /\ vreq \in ValidatorInputs
    /\ verr = NotValidated

ValidatorNext == ValidateWalletRequest

ValidatorSpec == ValidatorInit /\ [][ValidatorNext]_vars

(***************************************************************************)
(* Two wallets: a handler in debug mode executes operations of 1 on either *)
(* of two rows, each holding enough for them; clients may disconnect.      *)
(***************************************************************************)
PairInit ==
    /\ Machine(Rows, FALSE, FALSE, FALSE)
    /\ debugMode
    /\ clients = "pair"
    /\ \A w \in Rows : balance[w] = MaxInitBalance
    /\ vreq = NilRequest
    /\ verr = NotValidated

PairNext ==
    \/ \E r \in Http : HandleWalletOperation(r)
    \/ \E t \in Threads : Executor(t)
    \/ \E r \in Http : ClientDisconnect(r)

PairSpec == PairInit /\ [][PairNext]_vars

(***************************************************************************)
(* Properties of the ledger.                                               *)
(***************************************************************************)
\* C1: a balance is never negative, committed or written in an open transaction,
\* and positive_balance never refuses an UPDATE the executor's own check let pass.
C1_NonNegativeBalance ==
    /\ \A w \in Wallets : balance[w] >= 0
    /\ \A t \in Threads : \A n \in {1, 2} : tx[t][n].wrote => tx[t][n].wbal >= 0
    /\ ~refused

\* A withdrawal has committed and left the wallet empty.
C1_Witness ==
    \E w \in Wallets : ncommit[w] > 0 /\ initBalance[w] > 0 /\ balance[w] = 0

\* C2: no update is lost: a wallet's balance is its initial balance plus the signed
\* amounts of the operations that committed on it, however they interleave.
C2_NoLostUpdate ==
    \A w \in Wallets : balance[w] = initBalance[w] + applied[w]

\* Two operations of one run have committed on the same wallet and moved its balance.
C2_Witness ==
    \E w \in Wallets : ncommit[w] >= 2 /\ applied[w] # 0

\* Thread t takes the step in which it reads wallet w's balance under the row lock.
ReadsLocked(t, w) ==
    /\ ex[t].pc \in {"lock", "w_lock"}
    /\ ex[t].wallet = w
    /\ w \in Wallets
    /\ ex[t].pc = "lock" => tx[t][1].st = "active"
    /\ RowLockFree(w)
    /\ ex'[t] # ex[t]

\* C3: a withdrawal whose amount exceeds the balance it reads under the lock fails
\* with the insufficient-funds error, and neither the balance nor the log changes.
C3_OverdraftRejected ==
    [][\A t \in Threads : \A w \in Wallets :
          (ReadsLocked(t, w) /\ ex[t].op = WITHDRAW /\ balance[w] < ex[t].amount)
          => /\ hreq'[ex[t].rid].out = "ErrInsufficientFunds"
             /\ balance' = balance
             /\ txlog' = txlog]_vars

\* C4: a wallet's log holds exactly one entry per committed balance mutation.
C4_LogMatchesCommits ==
    \A w \in Wallets : Len(txlog[w]) = ncommit[w]

\* A deposit and a withdrawal have both committed and both are in the log.
C4_Witness ==
    \E w \in Wallets :
        /\ ncommit[w] >= 2
        /\ \E i, j \in 1..Len(txlog[w]) :
              txlog[w][i].op = DEPOSIT /\ txlog[w][j].op = WITHDRAW

\* Request r's handler returns in this step, its client still connected, while no
\* other request is in the executor.
ReturnsAlone(r) ==
    /\ hreq[r].pc = "exec"
    /\ hreq'[r].pc = "done"
    /\ tx[r][1].st = "active"
    /\ \A q \in Http \ {r} : hreq[q].pc # "exec"

\* C5: the sequential scenario on a wallet that starts at 0 (amounts in hundreds):
\* the deposit of 1000 succeeds and leaves 1000 and one log entry; the withdrawal of
\* 300 then succeeds and leaves 700 and two entries; the withdrawal of 800 is then
\* rejected for insufficient funds and leaves 700 and two entries.
C5_Scenario ==
    [][\A r \in Http : \A w \in Wallets :
          (debugMode /\ clients = "scenario" /\ initBalance[w] = 0 /\ ReturnsAlone(r)
             /\ ex[r].wallet = w)
          => /\ (ex[r].op = DEPOSIT /\ ex[r].amount = 10 /\ balance[w] = 0
                   /\ Len(txlog[w]) = 0)
                => (hreq'[r].out = "ok" /\ balance'[w] = 10 /\ Len(txlog'[w]) = 1)
             /\ (ex[r].op = WITHDRAW /\ ex[r].amount = 3 /\ balance[w] = 10
                   /\ Len(txlog[w]) = 1)
                => (hreq'[r].out = "ok" /\ balance'[w] = 7 /\ Len(txlog'[w]) = 2)
             /\ (ex[r].op = WITHDRAW /\ ex[r].amount = 8 /\ balance[w] = 7
                   /\ Len(txlog[w]) = 2)
                => (hreq'[r].out = "ErrInsufficientFunds" /\ balance'[w] = 7
                      /\ Len(txlog'[w]) = 2)]_vars

\* Every admitted request has run to its end: nothing is queued or in the executor.
Quiescent ==
    /\ queue = <<>>
    /\ \A t \in Threads : ex[t].pc \in {"free", "done", "pop"}
    /\ \A r \in Http : hreq[r].pc # "exec"

\* No operation failed on a storage call (no client closed its connection).
NoStorageFailure ==
    \A r \in Http : hreq[r].out \notin {"ErrBalanceGet", "ErrBalanceUpdate",
                                        "ErrTxRecord", "ErrTxCommit"}

\* C6: when the N requests a run admits are deposits of 1 to a wallet that starts at
\* 0, all of them commit: once they have finished the balance is N and the log has N
\* entries.
C6_ConcurrentDeposits ==
    \A w \in Wallets :
        (clients = "deposits" /\ initBalance[w] = 0 /\ Quiescent /\ NoStorageFailure)
        => LET N == Cardinality({r \in Http : hreq[r].pc = "done" /\ hreq[r].code # 429})
           IN  balance[w] = N /\ Len(txlog[w]) = N

\* C7: the sufficiency check applies to withdrawals only: a deposit is never
\* rejected for insufficient funds, and its commit leaves the balance read under
\* the lock plus the amount.
C7_DepositNeverInsufficient ==
    [][\A t \in Threads : \A w \in Wallets :
          (ex[t].op = DEPOSIT /\ ex[t].wallet = w /\ ex'[t] # ex[t])
          => /\ hreq'[ex[t].rid].out # "ErrInsufficientFunds"
             /\ (ex[t].pc = "commit" /\ tx[t][1].st = "active")
                => balance'[w] = ex[t].cur + ex[t].amount]_vars

\* C8: a withdrawal of a positive amount that has read, under the lock, a balance
\* covering the amount eventually returns successfully.
C8_WithdrawCompletes ==
    \A r \in Http :
        (\E t \in Threads : ex[t].rid = r /\ ex[t].pc = "w_lock" /\ ex[t].amount > 0)
        ~> (hreq[r].out = "ok")

RECURSIVE SumAmounts(_)
\* The sum of the amounts of a sequence of log records.
SumAmounts(s) == IF s = <<>> THEN 0 ELSE s[1].amount + SumAmounts(Tail(s))

\* C9: the log is a ledger: a deposit's record carries a non-negative amount, a
\* withdrawal's a non-positive one, and a wallet's balance is its initial balance
\* plus the sum of the amounts of its log records.
C9_LedgerConsistency ==
    \A w \in Wallets :
        /\ balance[w] = initBalance[w] + SumAmounts(txlog[w])
        /\ \A i \in 1..Len(txlog[w]) :
              /\ txlog[w][i].op = DEPOSIT => txlog[w][i].amount >= 0
              /\ txlog[w][i].op = WITHDRAW => txlog[w][i].amount <= 0

\* A withdrawal is in the log, with a negative amount, next to another record.
C9_Witness ==
    \E w \in Wallets :
        /\ Len(txlog[w]) >= 2
        /\ \E i \in 1..Len(txlog[w]) :
              txlog[w][i].op = WITHDRAW /\ txlog[w][i].amount < 0

\* Request r's operation is on the queue, for a wallet that exists.
Queued(r) ==
    \E i \in 1..Len(queue) : queue[i].rid = r /\ queue[i].wallet \in Wallets

\* C10: in asynchronous mode a request answered 202 for an existing wallet is
\* eventually popped from the queue by a worker and handed to the executor, as long
\* as the process keeps running.
C10_AcceptedIsProcessed ==
    \A r \in Http :
        (~debugMode /\ hreq[r].code = 202 /\ Queued(r)) ~> (~Queued(r) \/ crashed)

(***************************************************************************)
(* Properties of the request handlers.                                     *)
(***************************************************************************)
\* HandleWalletOperation answers request r in this step.
Answers(r) == hreq[r].pc = "new" /\ hreq'[r].pc = "done"

\* C11: a handler that queues answers 202 exactly when the operation was pushed
\* onto the list, answers a failed push with 500 (queue add failed), and changes
\* neither the ledger nor any transaction while it answers.
C11_AcceptedIffPushed ==
    [][\A r \in Http :
          (~debugMode /\ Answers(r))
          => /\ hreq'[r].code = 202
                <=> (Len(queue') = Len(queue) + 1 /\ queue'[1].rid = r)
             /\ hreq'[r].code # 202 => queue' = queue
             /\ (hreq'[r].code = 500) <=> (hreq'[r].out = "ErrQueueAdd")
             /\ UNCHANGED <<ledger, tx, rowLock, ex>>]_vars

\* One request was acknowledged and queued, another lost its push and got 500.
C11_Witness ==
    \E r, q \in Http :
        /\ hreq[r].code = 202
        /\ hreq[q].code = 500 /\ hreq[q].out = "ErrQueueAdd"
        /\ ~debugMode

\* An operation that passes every rule of the validator.
WellFormed(wallet, op, amount) ==
    /\ wallet \notin {InvalidUUID, NilUUID}
    /\ op \in {DEPOSIT, WITHDRAW}
    /\ amount >= 0

ValidationErrors ==
    {"ErrParseRequest", "ErrInvalidUUID", "ErrInvalidUUIDFormat", "ErrEmptyWalletID",
     "ErrNegativeAmount", "ErrInvalidOperationType"}

\* C12: a write request that fails validation goes no further than its answer:
\* no request of a client is ever in the executor or on the queue unless it is well
\* formed, and the step that answers with a validation error answers 400 and
\* changes neither the queue, nor the ledger, nor any transaction.
C12_InvalidRejected ==
    /\ [](/\ \A r \in Http : ex[r].pc \notin {"free", "done"}
                => WellFormed(ex[r].wallet, ex[r].op, ex[r].amount)
          /\ \A i \in 1..Len(queue) : queue[i].rid \in Http
                => WellFormed(queue[i].wallet, queue[i].op, queue[i].amount))
    /\ [][\A r \in Http :
             (Answers(r) /\ hreq'[r].out \in ValidationErrors)
             => /\ hreq'[r].code = 400
                /\ UNCHANGED <<queue, ledger, tx, rowLock, ex>>]_vars

\* Two requests of one run were refused by two different rules.
C12_Witness ==
    \E r, q \in Http :
        /\ hreq[r].code = 400 /\ hreq[r].out = "ErrNegativeAmount"
        /\ hreq[q].code = 400 /\ hreq[q].out \in {"ErrEmptyWalletID", "ErrInvalidUUID",
                                                  "ErrInvalidOperationType"}

\* C13: no storage is accessed for a malformed wallet id; in the executor: no
\* transaction is open for an operation whose wallet id has not been parsed
\* successfully.
C13_ParsedBeforeStorage ==
    \A t \in Threads : \A n \in {1, 2} :
        tx[t][n].st = "active" => uuidParse(ex[t].wallet)

\* C14: an operation whose amount is not strictly positive never executes a
\* mutation: no transaction writes a balance or a log record for it, and the log
\* holds no record with amount 0.
C14_ZeroAmountNeverMutates ==
    /\ \A w \in Wallets : \A i \in 1..Len(txlog[w]) : txlog[w][i].amount # 0
    /\ \A t \in Threads : \A n \in {1, 2} :
          (tx[t][n].wrote \/ tx[t][n].wlog # <<>>) => ex[t].amount > 0

\* C16: a write request that finds the token bucket empty is answered 429 in the
\* step in which it arrives: it does not wait, nothing is pushed onto the queue,
\* and the ledger, the transactions and the executor are left as they were.
C16_RateLimited ==
    [][\A r \in Http :
          (hreq[r].pc = "new" /\ hreq'[r].pc # "new" /\ hreq'[r].tok = 0)
          => /\ hreq'[r].pc = "done"
             /\ hreq'[r].code = 429
             /\ UNCHANGED <<queue, ledger, tx, rowLock, ex>>]_vars

\* One request was refused by the limiter, another was admitted.
C16_Witness ==
    \E r, q \in Http :
        /\ hreq[r].code = 429 /\ hreq[r].tok = 0
        /\ hreq[q].code \in {200, 202}

(***************************************************************************)
(* Properties of the read path.                                            *)
(***************************************************************************)
\* The reads that hold a slot of the semaphore.
Holders == {g \in Readers : rd[g].pc \in {"cache", "store"}}

\* C15: the semaphore never holds more than its capacity, one element per read
\* between its admission and its answer; a read that arrives while the semaphore
\* is full is answered 503 (server busy) in the same step, having called neither
\* the cache nor the store.
C15_ReadCap ==
    /\ [](semaphore = Cardinality(Holders) /\ semaphore <= SemaphoreCap)
    /\ [][\A g \in Readers :
             (rd[g].pc = "new" /\ rd'[g].pc # "new" /\ rd'[g].out # "preflight"
                /\ semaphore = SemaphoreCap)
             => /\ rd'[g].pc = "done"
                /\ rd'[g].code = 503 /\ rd'[g].out = "ErrServerBusy"
                /\ rd'[g].nc = 0 /\ rd'[g].nd = 0
                /\ UNCHANGED <<semaphore, cache>>]_vars

\* A read was turned away while another held the last slot.
C15_Witness ==
    \E g \in Readers : rd[g].out = "ErrServerBusy" /\ semaphore = SemaphoreCap

\* C17: a read reaches the store only after CacheAttempts calls of cache.Get, all
\* failed; a read answered from the cache sends the cached string after at most
\* CacheAttempts calls and never reads the store; the store is read at most
\* StoreAttempts times.
C17_CacheAside ==
    \A g \in Readers :
        /\ rd[g].nc <= CacheAttempts /\ rd[g].nd <= StoreAttempts
        /\ (rd[g].pc = "store" \/ rd[g].nd > 0) => rd[g].nc = CacheAttempts
        /\ (rd[g].pc = "done" /\ rd[g].body # <<>> /\ rd[g].body[1] = "string")
              => /\ rd[g].nd = 0 /\ rd[g].nc \in 1..CacheAttempts
                 /\ rd[g].code = 200 /\ rd[g].set = "none"

\* One read was answered from the cache on its second attempt, another from the
\* store on its third store read.
C17_Witness ==
    \E g, h \in Readers :
        /\ rd[g].pc = "done" /\ rd[g].body # <<>> /\ rd[g].body[1] = "string"
        /\ rd[g].nc = 2
        /\ rd[h].pc = "done" /\ rd[h].code = 200 /\ rd[h].nd = StoreAttempts

\* C18: a store read that finds no row ends the read: the answer is 404 in the
\* step of that read, the store is not read again and no cache write is issued;
\* the failed store reads before it, if any, were retried as usual.
C18_NotFoundEndsRead ==
    /\ [](\A g \in Readers :
            (rd[g].dbErr = "ErrWalletNotFound" \/ rd[g].code = 404)
            => /\ rd[g].pc = "done"
               /\ rd[g].dbErr = "ErrWalletNotFound"
               /\ rd[g].code = 404 /\ rd[g].out = "ErrWalletNotFound"
               /\ rd[g].nd \in 1..StoreAttempts
               /\ rd[g].set = "none")
    /\ [][\A g \in Readers :
             rd[g].dbErr = "ErrWalletNotFound"
             => rd'[g] = rd[g]]_vars

\* A read of an id without a row was answered 404.
C18_Witness ==
    \E g \in Readers : rd[g].code = 404 /\ rd[g].id = GhostWallet

\* C18 as stated: every 404 of the read path comes after exactly one store read.
C18_NotFoundAfterOneRead ==
    \A g \in Readers : rd[g].code = 404 => rd[g].nd = 1

\* C19: an admitted read always ends with a response; the response is 503
\* (balance retrieval failed) exactly when the last of StoreAttempts store reads
\* failed otherwise than by a missing row, which happens after CacheAttempts
\* failed cache attempts, and then no cache write is issued.
C19_ReadTerminates ==
    /\ \A g \in Readers :
         (rd[g].pc \in {"cache", "store"}) ~> (rd[g].pc = "done" /\ rd[g].code # 0)
    /\ [](\A g \in Readers :
            /\ rd[g].out = "ErrBalanceRetrievalFail"
               => /\ rd[g].pc = "done" /\ rd[g].code = 503
                  /\ rd[g].nc = CacheAttempts /\ rd[g].nd = StoreAttempts
                  /\ rd[g].dbErr = "ErrBalanceGetDB"
                  /\ rd[g].set = "none"
            /\ (rd[g].pc = "done" /\ rd[g].nd = StoreAttempts
                  /\ rd[g].dbErr = "ErrBalanceGetDB")
               => rd[g].out = "ErrBalanceRetrievalFail")

\* A read was answered 503 after all its attempts failed.
C19_Witness ==
    \E g \in Readers : rd[g].out = "ErrBalanceRetrievalFail" /\ rd[g].id = "w1"

\* C20: after a successful store read the goroutine's cache.Set is eventually
\* issued, whether or not the request's context is cancelled; it writes, under the
\* wallet's key, the text of the balance that was read with a time to live of
\* CacheTTL seconds; no other read issues a cache write, and nothing else fills
\* the cache.
C20_CacheRepopulated ==
    /\ \A g \in Readers : (rd[g].set = "pending") ~> (rd[g].set = "issued")
    /\ [](\A g \in Readers :
            rd[g].set # "none"
            => /\ rd[g].pc = "done" /\ rd[g].code = 200 /\ rd[g].gone
               /\ rd[g].nd >= 1 /\ rd[g].dbErr = "nil"
               /\ rd[g].id \in Wallets /\ rd[g].val = balance[rd[g].id]
               /\ rd[g].body = JSONObject(rd[g].val))
    /\ [][\A g \in Readers :
             (rd[g].set = "pending" /\ rd'[g].set = "issued")
             => \/ cache' = cache
                \/ cache' = [cache EXCEPT ![rd[g].id] =
                                [val |-> Text(rd[g].val), ttl |-> 30]]]_vars
    /\ [][\A w \in DOMAIN cache :
             (cache'[w] # cache[w] /\ cache'[w] # NoEntry)
             => \E g \in Readers :
                   rd[g].id = w /\ rd[g].set = "pending" /\ rd'[g].set = "issued"]_vars

\* The cache write of a read whose request is over has filled an empty cache.
C20_Witness ==
    \E g \in Readers :
        /\ rd[g].set = "issued" /\ rd[g].gone /\ rd[g].nc = CacheAttempts
        /\ cache[rd[g].id] = [val |-> Text(rd[g].val), ttl |-> 30]

\* C22: every balance read answered 200 with a body carries the JSON object
\* {"balance": <number>}, whether the value came from the cache or the store.
C22_SameShape ==
    \A g \in Readers :
        (rd[g].pc = "done" /\ rd[g].code = 200 /\ rd[g].out = "ok")
        => /\ Len(rd[g].body) = 3
           /\ rd[g].body = JSONObject(rd[g].body[3])

\* C23: a handler in debug mode pushes nothing onto the list; it answers 200 only
\* in the step that commits the operation's transaction; and a request whose
\* executor fails is answered with the error's status and leaves the committed
\* balance and log as they were.
C23_InlineWrite ==
    [][\A r \in Http :
          (debugMode /\ hreq'[r] # hreq[r])
          => /\ queue' = queue /\ queue = <<>>
             /\ hreq'[r].code = 200
                => (hreq[r].pc = "exec" /\ ncommit'[ex[r].wallet] = ncommit[ex[r].wallet] + 1)
             /\ (hreq'[r].pc = "done" /\ hreq'[r].code # 200)
                => /\ hreq'[r].code \in {400, 404, 405, 429, 500}
                   /\ balance' = balance /\ txlog' = txlog]_vars

(***************************************************************************)
(* Properties of the executor.                                             *)
(***************************************************************************)
\* Thread t is in the executor, between beginTx and its return.
Executing(t) == ex[t].pc \notin {"free", "done", "pop"}

\* Thread t leaves the executor in this step.
Leaves(t) == Executing(t) /\ ~Executing(t)'

\* C25: the locked read of an operation on a well-formed id without a row ends the
\* operation at once with the wallet-not-found error, answered 404 by a handler
\* that executes inline; the transaction is rolled back, and no balance and no log
\* changes.
C25_WalletNotFound ==
    [][\A t \in Threads :
          (ex'[t] # ex[t] /\ ex[t].pc = "lock" /\ tx[t][1].st = "active"
             /\ uuidParse(ex[t].wallet) /\ ex[t].wallet \notin Wallets)
          => /\ Leaves(t)
             /\ ex[t].rid \in Http
                => /\ hreq'[ex[t].rid].out = "ErrWalletNotFound"
                   /\ t \in Http => hreq'[ex[t].rid].code = 404
             /\ \A n \in {1, 2} : tx'[t][n].st # "active"
             /\ UNCHANGED <<balance, txlog, rowLock>>]_vars

\* Requests on the id without a row were answered 404, by a handler that executes
\* inline, or failed in a worker.
C25_Witness ==
    \E r \in Http :
        /\ hreq[r].out = "ErrWalletNotFound"
        /\ hreq[r].code = IF debugMode THEN 404 ELSE 202
        /\ balance = initBalance

\* Thread t waits for the lock of a wallet row, held by another transaction.
WaitsForLock(t) ==
    /\ ex[t].pc \in {"lock", "w_lock"}
    /\ ex[t].wallet \in Wallets
    /\ rowLock[ex[t].wallet] # NoTx

\* C26: a thread that is not in the executor has no open transaction and holds no
\* row lock; a row lock that is held is eventually released; and a thread that
\* waits for a row lock eventually stops waiting.
C26_LocksReleased ==
    /\ [](\A t \in Threads :
            ~Executing(t)
            => /\ \A n \in {1, 2} : tx[t][n].st # "active"
               /\ \A w \in Wallets : rowLock[w][1] # t)
    /\ \A w \in Rows :
         (w \in Wallets /\ rowLock[w] # NoTx) ~> (w \in Wallets /\ rowLock[w] = NoTx)
    /\ \A t \in Threads : WaitsForLock(t) ~> ~WaitsForLock(t)

\* C27: an operation runs in one transaction: no thread ever has a second
\* transaction, and only the operation's first transaction locks a row or writes.
C27_OneTransaction ==
    /\ \A t \in Threads : tx[t][2].st = "none"
    /\ \A w \in Wallets : rowLock[w] # NoTx => rowLock[w][2] = 1

\* The errors handleOperation returns once its transaction has begun.
ExecutorErrors ==
    {"ErrInvalidUUID", "ErrWalletNotFound", "ErrBalanceGet", "ErrInsufficientFunds",
     "ErrInvalidOperation", "ErrBalanceUpdate", "ErrTxRecord", "ErrTxCommit"}

\* C28: an operation that leaves the executor in a step that commits nothing has
\* failed at one of its steps: it returns one of the executor's errors, and the
\* committed balances and logs are as they were when it started.
C28_FailureRollsBack ==
    [][\A t \in Threads :
          (Leaves(t) /\ ncommit' = ncommit /\ ex[t].rid \in Http)
          => /\ hreq'[ex[t].rid].out \in ExecutorErrors
             /\ balance' = balance /\ txlog' = txlog]_vars

C30_WalletsIndependent ==
    /\ [](\A t \in Threads :
            (~crashed /\ ex[t].pc = "lock" /\ ex[t].wallet \in Wallets
               /\ rowLock[ex[t].wallet] = NoTx)
            => ENABLED hop_getCurrentBalance(t))
    /\ [][\A t \in Threads : \A b \in Rows :
             (ex'[t] # ex[t] /\ Executing(t) /\ b \in Wallets /\ b # ex[t].wallet)
             => /\ balance'[b] = balance[b]
                /\ txlog'[b] = txlog[b]
                /\ rowLock'[b] = rowLock[b]]_vars

\* While a withdrawal holds the lock of one wallet, an operation that arrived later
\* has committed on the other.
C30_Witness ==
    \E a, b \in Wallets :
        /\ a # b
        /\ rowLock[a] # NoTx
        /\ ncommit[b] > 0
        /\ \E r, q \in Http : r < q /\ rowLock[a][1] = r /\ hreq[q].out = "ok"

(***************************************************************************)
(* Properties of the validator.                                            *)
(***************************************************************************)
\* The rules of the validator in the order of their checks, each with the request
\* that breaks it.
Rules ==
    <<[err |-> "ErrNilRequest", broken |-> vreq = NilRequest],
      [err |-> "ErrInvalidUUIDFormat", broken |-> vreq.wallet = InvalidUUID],
      [err |-> "ErrEmptyWalletID", broken |-> vreq.wallet = NilUUID],
      [err |-> "ErrNegativeAmount", broken |-> vreq.amount < 0],
      [err |-> "ErrInvalidOperationType", broken |-> vreq.op \notin {DEPOSIT, WITHDRAW}]>>

\* C24: the validator returns the error of the first rule the request breaks, in
\* the order absent request, unparsable id, nil id, negative amount, unknown
\* operation type, and nil for a request that breaks none.
C24_FirstFailingRule ==
    verr # NotValidated
    => LET broken == {i \in 1..Len(Rules) : Rules[i].broken} IN
       /\ broken = {} => (verr.err = "nil" /\ ~verr.wrapped)
       /\ broken # {}
          => /\ verr.wrapped
             /\ \E i \in broken : /\ \A j \in broken : i <= j
                                  /\ verr.err = Rules[i].err

\* A request with a nil id, a negative amount and an unknown operation type was
\* refused for its id.
C24_Witness ==
    /\ vreq # NilRequest
    /\ vreq.wallet = NilUUID /\ vreq.amount < 0 /\ vreq.op = OtherOperation
    /\ verr.err = "ErrEmptyWalletID"

(***************************************************************************)
(* Properties of reads next to writes.                                     *)
(***************************************************************************)
\* Read g takes a step of its handler.
ReadSteps(g) == rd'[g] # rd[g]

\* C21: every entry of the cache carries the time to live of CacheTTL seconds, so
\* it expires; a cache attempt that finds the key absent does not answer, and the
\* read goes on to the store; a store read that succeeds answers with the balance
\* committed at that moment, and the cache write that follows stores that balance
\* under the wallet's key.
C21_ExpiredEntryRefilled ==
    /\ [](\A w \in DOMAIN cache : cache[w] # NoEntry => cache[w].ttl = CacheTTL)
    /\ [][\A g \in Readers :
             (ReadSteps(g) /\ rd[g].pc = "cache" /\ CacheLookup(rd[g].id) = NoEntry)
             => /\ rd'[g].nc = rd[g].nc + 1
                /\ rd'[g].pc = IF rd'[g].nc = CacheAttempts THEN "store" ELSE "cache"]_vars
    /\ [][\A g \in Readers :
             (ReadSteps(g) /\ rd[g].pc = "store" /\ rd[g].id \in Wallets)
             => /\ rd'[g].pc = "done" /\ rd'[g].code = 200
                /\ rd'[g].val = balance[rd[g].id]
                /\ rd'[g].body = JSONObject(balance[rd[g].id])
                /\ rd'[g].set = "pending"]_vars
    /\ [][\A g \in Readers :
             (ReadSteps(g) /\ rd[g].set = "pending")
             => cache' = [cache EXCEPT ![rd[g].id] =
                            [val |-> Text(rd[g].val), ttl |-> CacheTTL]]]_vars

\* After a first read filled the cache, the entry expired and a deposit committed;
\* a second read went to the store and left the new balance in the cache.
C21_Witness ==
    \E g, h \in Readers :
        /\ g < h
        /\ rd[g].set = "issued" /\ rd[h].set = "issued"
        /\ rd[g].val = initBalance[rd[g].id] /\ rd[h].val > rd[g].val
        /\ rd[h].nc = CacheAttempts
        /\ cache[rd[h].id] = [val |-> Text(rd[h].val), ttl |-> CacheTTL]

\* C39: semaphore slots are never leaked.  When no read is between its
\* admission and its answer the semaphore is empty; the step that answers an
\* admitted read, on whatever path (cache hit, 404, 503 after the retries,
\* success), gives its slot back; a read with a bad id takes and frees its slot
\* within its one step; a read turned away, and the goroutine that fills the
\* cache, leave the semaphore as it is.
C39_NoSlotLeaked ==
    /\ []((\A g \in Readers : rd[g].pc \in {"new", "done"}) => semaphore = 0)
    /\ [][\A g \in Readers :
            /\ (rd[g].pc \in {"cache", "store"} /\ rd'[g].pc = "done")
                 => semaphore' = semaphore - 1
            /\ (rd[g].pc = "new" /\ rd'[g].pc = "done") => semaphore' = semaphore
            /\ (rd[g].pc = "new" /\ rd'[g].pc = "cache") => semaphore' = semaphore + 1
            /\ (rd[g].pc = "done" /\ rd'[g] # rd[g]) => semaphore' = semaphore]_vars

\* Every read has been answered, one of them 503 because the other held the last
\* slot, and the semaphore is empty again.
C39_Witness ==
    /\ \A g \in Readers : rd[g].pc = "done"
    /\ \E g, h \in Readers : /\ rd[g].out = "ErrServerBusy"
                             /\ rd[h].code \in {200, 404} /\ rd[h].nc > 0
    /\ semaphore = 0

Committed(w) == {initBalance[w] + i : i \in 0..ncommit[w]}

\* C40: every value in the cache under a wallet's key, every balance a store read
\* has handed to the goroutine that fills the cache, and every balance a read
\* has returned, is one the wallet had as its committed balance at some earlier
\* moment.
C40_OnlyCommittedBalances ==
    /\ \A w \in Wallets : balance[w] = initBalance[w] + ncommit[w]
    /\ \A w \in DOMAIN cache :
          cache[w] # NoEntry => \E b \in Committed(w) : cache[w] = SetEntry(b)
    /\ \A g \in Readers :
          /\ rd[g].set # "none" => rd[g].val \in Committed(rd[g].id)
          /\ (rd[g].pc = "done" /\ rd[g].code = 200 /\ rd[g].out = "ok")
               => \E b \in Committed(rd[g].id) :
                     rd[g].body \in {JSONString(Text(b)), JSONObject(b)}

\* Two repopulations raced: the read that saw the older balance wrote the cache
\* after the read that saw the newer one, and the cache holds the older committed
\* balance.
C40_Witness ==
    \E g, h \in Readers :
        /\ rd[g].set = "issued" /\ rd[h].set = "issued"
        /\ rd[g].id = rd[h].id
        /\ rd[g].val < rd[h].val
        /\ rd[h].val = balance[rd[h].id]
        /\ cache[rd[g].id] = SetEntry(rd[g].val)

(***************************************************************************)
(* The worker pool from its start to its shutdown: a handler that queues   *)
(* deposits, a ProcessQueue call whose context is cancelled at some time,  *)
(* and a consumer process that may die.  Nothing else fails.               *)
(***************************************************************************)
\* The process that runs the pool dies (the handler keeps no record of the items
\* its goroutines hold and has no code that runs at exit): the store rolls back
\* its open transactions, the list in Redis stays as it is.
ConsumerCrash ==
    /\ ~crashed
    /\ pool = "running"
    /\ crashed' = TRUE
    /\ tx' = [u \in Threads |-> [n \in {1, 2} |-> Rollback(tx[u][n])]]
    /\ rowLock' = [w \in Wallets |-> NoTx]
    /\ UNCHANGED <<config, validation, readside, ledger, frontend, refused, ex, hreq>>

PoolInit ==
    /\ Start(FALSE, FALSE, FALSE)
    /\ balance["w1"] = MaxInitBalance
    /\ ~debugMode
    /\ clients = "deposits"

PoolWorker(k) ==
    \/ ProcessQueue_spawn(k)
    \/ processQueueItem_pop(k)
    \/ processQueueItem_cancelled(k)
    \/ hop_getCurrentBalance(k)
    \/ hop_updateBalance(k)
    \/ hop_recordTransaction(k)
    \/ hop_Commit(k)

PoolNext ==
    \/ \E r \in Http : HandleWalletOperation(r)
    \/ StartProcessQueue
    \/ \E k \in Workers : PoolWorker(k)
    \/ CancelContext
    \/ ProcessQueue_return
    \/ ConsumerCrash

PoolSpec == PoolInit /\ [][PoolNext]_vars

\* Goroutines that can run do run, and a select whose case <-ctx.Done() stays
\* ready takes it in the end (select chooses among ready cases at random).
\* Nobody is obliged to send requests, to cancel the context or to crash.
FairPoolSpec ==
    /\ PoolSpec
    /\ \A k \in Workers : WF_vars(PoolWorker(k))
    /\ WF_vars(StartProcessQueue)
    /\ WF_vars(ProcessQueue_return)

(***************************************************************************)
(* Properties of the queue consumer.                                       *)
(***************************************************************************)
\* Worker k pops an element that json.Unmarshal rejects.
PopsUndecodable(k) ==
    /\ ex[k].pc = "pop"
    /\ queue # <<>>
    /\ BRPop_item(queue).enc # "number"
    /\ Len(queue') < Len(queue)
    /\ ex'[k] # ex[k]

\* C31: a queue item that cannot be deserialized is dropped.  The step that pops
\* it removes it from the list, begins no transaction, touches neither the ledger
\* nor a row lock nor a request, and ends the goroutine, which frees its slot
\* while the pool keeps running; and no goroutine of the handler ever adds an
\* undecodable element to the list.
C31_UndecodableDropped ==
    [][/\ \A k \in Workers :
            PopsUndecodable(k) =>
              /\ queue' = SubSeq(queue, 1, Len(queue) - 1)
              /\ UNCHANGED <<ledger, tx, rowLock, hreq, pool, crashed>>
              /\ ex'[k] = IdleThread
       /\ Cardinality({i \in 1..Len(queue') : queue'[i].enc # "number"})
             > Cardinality({i \in 1..Len(queue) : queue[i].enc # "number"})
            => UNCHANGED <<ex, tx, hreq, drops>>]_vars

\* An undecodable element was dropped and, with the pool's one goroutine at
\* a time, a later item is on its way to its commit.
C31_Witness ==
    /\ drops > 0
    /\ \E k \in Workers : ex[k].pc = "commit"
    /\ Cardinality({k \in Workers : ex[k].pc # "free"}) = 1

\* Where the operation of request r is: the elements of the list that carry it,
\* the goroutines of the pool that hold it, and its recorded outcome.
InList(r) == {i \in 1..Len(queue) : queue[i].rid = r}
InHand(r) == {k \in Workers : ex[k].rid = r}
Finished(r) == hreq[r].code = 202 /\ hreq[r].out # "-"
Places(r) ==
    Cardinality(InList(r)) + Cardinality(InHand(r)) + (IF Finished(r) THEN 1 ELSE 0)

C35_NoItemAfterCancel ==
    [][ctxDone => \A k \in Workers : ex[k].pc = "pop" => ex'[k].pc \in {"pop", "free"}]_vars

\* C36: once its context is cancelled, a running ProcessQueue call returns (as
\* long as its process lives), for every ConcurrencyLimit, 0 included, and also
\* while goroutines of the pool wait in BRPop on an empty list.
C36_ProcessQueueReturns ==
    (pool = "running" /\ ctxDone) ~> (pool = "returned" \/ crashed)

\* ProcessQueue has returned while a goroutine still waits in BRPop on an empty list.
C36_Witness ==
    /\ pool = "returned"
    /\ queue = <<>>
    /\ \E k \in Workers : ex[k].pc = "pop"

(***************************************************************************)
(* Properties of the executor's answers.                                   *)
(***************************************************************************)
\* C38: an operation executed inline that leaves the executor without a commit
\* was classified by the stage that failed: an invalid id or operation type or
\* insufficient funds is answered 400, a missing wallet 404, and a storage
\* failure (locked read, balance update, log insert, commit) 500 with the
\* stage's tag; deposits and withdrawals alike.
C38_FailuresClassified ==
    [][\A r \in Http :
          (debugMode /\ Leaves(r) /\ ncommit' = ncommit)
          => \/ /\ hreq'[r].out \in {"ErrInvalidUUID", "ErrInvalidOperation",
                                      "ErrInsufficientFunds"}
                /\ hreq'[r].code = 400
             \/ hreq'[r].out = "ErrWalletNotFound" /\ hreq'[r].code = 404
             \/ /\ hreq'[r].out \in {"ErrBalanceGet", "ErrBalanceUpdate", "ErrTxRecord",
                                      "ErrTxCommit"}
                /\ hreq'[r].code = 500]_vars

====
